---- MODULE Spec2Model ----
(***************************************************************************)
(* A model of lessons/bias-variance_tradeoff.ipynb: the notebook's cells,  *)
(* run top to bottom, as a state machine over the kernel's namespace.  A   *)
(* cell that raises stops at the raising statement and keeps the names it  *)
(* has bound so far; the kernel stays up and the cell below can be run.    *)
(*                                                                         *)
(* Real numbers are exact rationals <<numerator, denominator>> in lowest   *)
(* terms with a positive denominator.  A pandas DataFrame is a record of   *)
(* its column labels and its columns; a 2-D array (DataFrame.values) is    *)
(* the sequence of its columns, so that an array of shape (0, d) keeps its *)
(* width d.  A Python str is the sequence of its characters.               *)
(***************************************************************************)
EXTENDS Integers, Sequences, FiniteSets, TLC

VARIABLES
    pc,               \* the next cell to run, "done", or "error" after a cell raised
    ran,              \* the cell run last ("" before the first)
    raised,           \* the exception raised by the cell run last ("" if none)
    defined,          \* the names bound in the kernel's namespace so far
    x, y,             \* training inputs and noisy training targets
    df,               \* training DataFrame: columns x, x^2 .. x^N
    Xs, models, predictions,
    colors, plots,    \* the colour ramp and the grid of per-degree subplots
    figure,           \* what the last plotting call drew
    rmse_y,           \* rmse's default true_y, bound when rmse is defined
    calls,            \* log of rmse invocations: preds, true_y, result
    model_size, training_rmse,
    x_drawn,          \* x_test as drawn, before the filter rebinds it
    x_test, y_test, df_test, test_Xs, test_predictions,
    m4,               \* the model of the degree-4 plot cell
    test_rmse,
    f_pc, f_preds, f_true, f_out,     \* one call of rmse on given arguments
    c_pc, c_N, c_colors, c_used,      \* the colour cells run with N = c_N
    c_args            \* the values passed to make_color_value

vars == <<pc, ran, raised, defined, x, y, df, Xs, models, predictions, colors, plots,
          figure, rmse_y, calls, model_size, training_rmse, x_drawn, x_test,
          y_test, df_test, test_Xs, test_predictions, m4, test_rmse,
          f_pc, f_preds, f_true, f_out, c_pc, c_N, c_colors, c_used, c_args>>

pipeVars == <<pc, ran, raised, defined, x, y, df, Xs, models, predictions, colors,
              plots, figure, rmse_y, calls, model_size, training_rmse,
              x_drawn, x_test, y_test, df_test, test_Xs, test_predictions, m4, test_rmse>>
fnVars == <<f_pc, f_preds, f_true, f_out>>
colVars == <<c_pc, c_N, c_colors, c_used, c_args>>

(***************************************************************************)
(* Bounds of the model and constants of the notebook.                      *)
(***************************************************************************)
\* max poly degree (40 in the notebook)
N == 3
\* number of normal draws for the test inputs (500 in the notebook)
NDraws == 2
\* grid points per unit of x: the step of np.arange is 1/XPerUnit (.01 in the
\* notebook, 100 points per unit)
XPerUnit == 2
\* longest argument of rmse explored on its own
MaxLen == 2
\* largest N the colour cells are run with
MaxN == 200
\* the 200 of range(0,200,200//N) and of make_color_value(200-i)
ColorSpan == 200
\* the 55 of make_color_value(55+i)
ColorBase == 55
\* the 4 of df.columns[:4] in the degree-4 plot cell
PlotDegree == 4
\* the 3 of colors[3] in the degree-4 plot cell
PlotColor == 3

(***************************************************************************)
(* Exact rational arithmetic.                                              *)
(***************************************************************************)
Abs(a) == IF a < 0 THEN -a ELSE a
Min(a, b) == IF a < b THEN a ELSE b

RECURSIVE Gcd(_, _)
Gcd(a, b) == IF b = 0 THEN a ELSE Gcd(b, a % b)

\* n/d in lowest terms
Rat(n, d) ==
    LET sg == IF d < 0 THEN -1 ELSE 1
        g == Gcd(Abs(n), Abs(d))
    IN  <<(sg * n) \div g, (sg * d) \div g>>

Zero == <<0, 1>>
One == <<1, 1>>

RAdd(a, b) ==
    LET g == Gcd(a[2], b[2])
    IN  Rat(a[1] * (b[2] \div g) + b[1] * (a[2] \div g), (a[2] \div g) * b[2])
RNeg(a) == <<-a[1], a[2]>>
RSub(a, b) == RAdd(a, RNeg(b))
RMul(a, b) ==
    LET g1 == Gcd(Abs(a[1]), b[2])
        g2 == Gcd(Abs(b[1]), a[2])
    IN  Rat((a[1] \div g1) * (b[1] \div g2), (a[2] \div g2) * (b[2] \div g1))
RDiv(a, b) == RMul(a, Rat(b[2], b[1]))
RLeq(a, b) == a[1] * b[2] <= b[1] * a[2]
RLt(a, b) == a[1] * b[2] < b[1] * a[2]
RAbs(a) == <<Abs(a[1]), a[2]>>

\* a ** i for an integer exponent i >= 0
RECURSIVE RPow(_, _)
RPow(a, i) == IF i = 0 THEN One ELSE RMul(a, RPow(a, i - 1))

RECURSIVE RSum(_)
RSum(s) == IF Len(s) = 0 THEN Zero ELSE RAdd(s[1], RSum(Tail(s)))

\* the sequence s as a tuple of evaluated elements
Vec(s) == s \o <<>>

Dot(u, v) == RSum(Vec([r \in 1..Len(u) |-> RMul(u[r], v[r])]))
\* a*u + v, elementwise
Axpy(a, u, v) == Vec([r \in 1..Len(v) |-> RAdd(RMul(a, u[r]), v[r])])

(***************************************************************************)
(* Python and numpy helpers.                                               *)
(***************************************************************************)
\* range(a, b, s) for s > 0
Range(a, b, s) == [k \in 1..(IF b > a THEN (b - a + s - 1) \div s ELSE 0) |-> a + (k - 1) * s]

\* s[i] for a Python index i (negative indices count from the end)
InRange(s, i) == -Len(s) <= i /\ i < Len(s)
At(s, i) == IF i >= 0 THEN s[i + 1] ELSE s[Len(s) + i + 1]

\* s[:i]
Upto(s, i) ==
    IF i >= 0 THEN SubSeq(s, 1, Min(i, Len(s)))
    ELSE SubSeq(s, 1, IF Len(s) + i > 0 THEN Len(s) + i ELSE 0)

\* the arguments of np.arange(-1,1,.01)
XStart == <<-1, 1>>
XStop == <<1, 1>>
XStep == <<1, XPerUnit>>

\* the least integer >= q
Ceil(q) == -((-q[1]) \div q[2])

\* np.arange(start, stop, step) for step > 0: the ceil((stop - start)/step)
\* values start + k*step
Arange(start, stop, step) ==
    LET n == Ceil(RDiv(RSub(stop, start), step))
    IN  Vec([k \in 1..(IF n > 0 THEN n ELSE 0) |-> RAdd(start, RMul(<<k - 1, 1>>, step))])

\* np.vectorize(math.sin)(a), as true_model calls it: without otypes it raises
\* ValueError on an input of size 0
CanVectorize(a) == Len(a) >= 1

\* values the noisy targets y and y_test are drawn from: true_model(x) plus
\* NOISE * randn() ranges over every real, whatever true_model is
YVals == {Zero, One}

\* values the normal draws for x_test are taken from
DrawVals == {<<-3, 2>>, <<-1, 1>>, <<1, 3>>}

(***************************************************************************)
(* Feature expansion.                                                      *)
(***************************************************************************)
\* the column labels 'x' and 'x^' + str(i)
XName == <<"x">>
PowName(i) == <<"x^", i>>

\* df[name] = col: replaces the column of that label or appends a new one
SetCol(d, name, col) ==
    IF \E j \in 1..Len(d.columns) : d.columns[j] = name
    THEN [d EXCEPT !.data = [j \in 1..Len(d.columns) |->
                                IF d.columns[j] = name THEN col ELSE d.data[j]]]
    ELSE [columns |-> Append(d.columns, name), data |-> Append(d.data, col)]

\* xs ** i, elementwise
Power(xs, i) == Vec([r \in 1..Len(xs) |-> RPow(xs[r], i)])

\* the loop  for i in range(2,N+1): df['x^' + str(i)] = x**i  from i on
RECURSIVE ExpandFrom(_, _, _, _)
ExpandFrom(d, xs, i, n) ==
    IF i > n THEN d
    ELSE ExpandFrom(SetCol(d, PowName(i), Power(xs, i)), xs, i + 1, n)

\* df = pd.DataFrame({'x':x}) followed by the loop over range(2,N+1)
Expand(xs, n) == ExpandFrom([columns |-> <<XName>>, data |-> <<xs>>], xs, 2, n)

\* PrefixValues taking the single column i-1 (df.columns[i-1:i]) instead of the prefix
SingleColumn(d, i) == SubSeq(d.data, Min(i, Len(d.columns)), Min(i, Len(d.columns)))

\* df[list(df.columns[:i])].values
PrefixValues(d, i) == Upto(d.data, Len(Upto(d.columns, i)))

\* [df[list(df.columns[:i])].values for i in range(1,df.shape[1])]
FeatureMatrices(d) == [k \in 1..Len(Range(1, Len(d.columns), 1)) |->
                          PrefixValues(d, Range(1, Len(d.columns), 1)[k])]

(***************************************************************************)
(* sklearn's LinearRegression (fit_intercept=True): X and y are centred on *)
(* their column means, coef_ is the minimum-norm least-squares solution of *)
(* the centred system (scipy.linalg.lstsq), and intercept_ is              *)
(* mean(y) - mean(X) . coef_.  The solution is computed exactly: by        *)
(* Gram-Schmidt on the centred columns, where a basis element carries its  *)
(* values v on the rows and its coordinates c in the columns; a column     *)
(* that depends on the earlier ones yields a vector of the null space, and *)
(* the least-squares solution found is then made orthogonal to the null    *)
(* space, which gives the one of minimum norm.                             *)
(***************************************************************************)
NRows(X) == Len(X[1])
\* v - v.mean()
Centred(v) ==
    LET m == RDiv(RSum(v), <<Len(v), 1>>)
    IN  Vec([r \in 1..Len(v) |-> RSub(v[r], m)])
Unit(k, n) == Vec([j \in 1..n |-> IF j = k THEN One ELSE Zero])
IsZeroVec(v) == \A r \in 1..Len(v) : v[r] = Zero

\* vc less its projections on the basis elements qs[1..k]
RECURSIVE Reduce(_, _, _)
Reduce(vc, qs, k) ==
    IF k = 0 THEN vc
    ELSE LET f == RNeg(RDiv(Dot(vc.v, qs[k].v), Dot(qs[k].v, qs[k].v)))
         IN  Reduce([v |-> Axpy(f, qs[k].v, vc.v), c |-> Axpy(f, qs[k].c, vc.c)],
                    qs, k - 1)

\* of the first k columns of A: qs, an orthogonal basis of their span, and ns,
\* one vector of their null space for each column that depends on the earlier ones
RECURSIVE Basis(_, _)
Basis(A, k) ==
    IF k = 0 THEN [qs |-> <<>>, ns |-> <<>>]
    ELSE LET b == Basis(A, k - 1)
             q == Reduce([v |-> A[k], c |-> Unit(k, Len(A))], b.qs, Len(b.qs))
         IN  IF IsZeroVec(q.v) THEN [b EXCEPT !.ns = Append(@, q.c)]
             ELSE [b EXCEPT !.qs = Append(@, q)]

\* the coordinates, in the columns of A, of the projection of ys on qs[1..k]
RECURSIVE Solve(_, _, _, _)
Solve(qs, ys, k, n) ==
    IF k = 0 THEN Vec([j \in 1..n |-> Zero])
    ELSE Axpy(RDiv(Dot(ys, qs[k].v), Dot(qs[k].v, qs[k].v)), qs[k].c,
              Solve(qs, ys, k - 1, n))

\* an orthogonal basis of the span of the independent vectors ns[1..k]
RECURSIVE Ortho(_, _)
Ortho(ns, k) ==
    IF k = 0 THEN <<>>
    ELSE LET os == Ortho(ns, k - 1)
         IN  Append(os, Reduce([v |-> ns[k], c |-> <<>>], os, Len(os)))

\* the solution of minimum norm among w + (the span of ns)
MinNorm(w, ns) ==
    LET os == Ortho(ns, Len(ns))
    IN  Reduce([v |-> w, c |-> <<>>], os, Len(os)).v

\* LinearRegression().fit(X, ys)
Fit(X, ys) ==
    LET A == Vec([j \in 1..Len(X) |-> Centred(X[j])])
        b == Basis(A, Len(A))
        w == MinNorm(Solve(b.qs, Centred(ys), Len(b.qs), Len(A)), b.ns)
        means == Vec([j \in 1..Len(X) |-> RDiv(RSum(X[j]), <<NRows(X), 1>>)])
    IN  [intercept |-> RSub(RDiv(RSum(ys), <<Len(ys), 1>>), Dot(means, w)),
         coef |-> w]

\* model.predict(X) accepts X only with the fitted width and at least one row
CanPredict(m, X) == Len(X) = Len(m.coef) /\ NRows(X) >= 1
Predict(m, X) ==
    Vec([r \in 1..NRows(X) |->
            RAdd(m.intercept, RSum(Vec([j \in 1..Len(X) |-> RMul(m.coef[j], X[j][r])])))])

(***************************************************************************)
(* The colour ramp.                                                        *)
(***************************************************************************)
HexChars == <<"0", "1", "2", "3", "4", "5", "6", "7", "8", "9",
              "a", "b", "c", "d", "e", "f">>

RECURSIVE HexDigits(_)
HexDigits(n) ==
    IF n < 16 THEN <<HexChars[n + 1]>>
    ELSE HexDigits(n \div 16) \o <<HexChars[(n % 16) + 1]>>

\* hex(i)
Hex(i) == IF i >= 0 THEN <<"0", "x">> \o HexDigits(i) ELSE <<"-", "0", "x">> \o HexDigits(-i)

\* make_color_value without the '0' padding of a one-digit value
make_color_value_unpadded(i) == SubSeq(Hex(i), 3, Len(Hex(i)))

make_color_value(i) ==
    LET value == SubSeq(Hex(i), 3, Len(Hex(i)))
    IN  IF Len(value) < 2 THEN <<"0">> \o value ELSE value

\* the step 200//N of the colour range; range() raises ValueError on step 0
ColorStep(n) == ColorSpan \div n

\* ['#' + make_color_value(55+i) + make_color_value(200-i) + '00' for i in range(0,200,200//N)]
Colors(n) ==
    LET rng == Range(0, ColorSpan, ColorStep(n))
    IN  [k \in 1..Len(rng) |->
            <<"#">> \o make_color_value(ColorBase + rng[k])
                    \o make_color_value(ColorSpan - rng[k]) \o <<"0", "0">>]

(***************************************************************************)
(* rmse.  math.sqrt(q) is kept as the exact value "square root of q":      *)
(* the record's sqrt_of is q.  raises names the exception, "" if none.     *)
(***************************************************************************)
Returns(q) == [raises |-> "", sqrt_of |-> q]
Raises(e) == [raises |-> e, sqrt_of |-> Zero]

\* numpy's true_y - preds: elementwise, a length-1 operand is broadcast
Broadcastable(a, b) == Len(a) = Len(b) \/ Len(a) = 1 \/ Len(b) = 1
Minus(a, b) ==
    LET n == IF Len(a) = 1 THEN Len(b) ELSE IF Len(b) = 1 THEN Len(a) ELSE Len(a)
    IN  Vec([r \in 1..n |-> RSub(IF Len(a) = 1 THEN a[1] ELSE a[r],
                                 IF Len(b) = 1 THEN b[1] ELSE b[r])])

\* statistics.mean(data) of a non-empty sequence
Mean(data) == RDiv(RSum(data), <<Len(data), 1>>)

\* math.sqrt(q)
Sqrt(q) == IF RLt(q, Zero) THEN Raises("ValueError") ELSE Returns(q)
SqrtLeq(a, b) == RLeq(a.sqrt_of, b.sqrt_of)

\* rmse without the square: math.sqrt(mean(true_y-preds))
rmse_unsquared(preds, true_y) ==
    IF ~Broadcastable(true_y, preds) THEN Raises("ValueError")
    ELSE IF Len(Minus(true_y, preds)) < 1 THEN Raises("StatisticsError")
         ELSE Sqrt(Mean(Minus(true_y, preds)))

\* def rmse(preds, true_y=y): return math.sqrt(mean((true_y-preds)**2))
rmse(preds, true_y) ==
    IF ~Broadcastable(true_y, preds) THEN Raises("ValueError")
    ELSE LET sq == Power(Minus(true_y, preds), 2)
         IN  IF Len(sq) < 1 THEN Raises("StatisticsError") ELSE Sqrt(Mean(sq))

(***************************************************************************)
(* The cells of the notebook, in order.                                    *)
(***************************************************************************)
NoFrame == [columns |-> <<>>, data |-> <<>>]
NoModel == [intercept |-> Zero, coef |-> <<>>]
Drew(kind, title, line, c) == [kind |-> kind, title |-> title, line |-> line, c |-> c]

PipeBlank ==
    /\ ran = "" /\ raised = "" /\ defined = {}
    /\ x = <<>> /\ y = <<>> /\ df = NoFrame
    /\ Xs = <<>> /\ models = <<>> /\ predictions = <<>>
    /\ colors = <<>> /\ plots = <<>> /\ figure = Drew("none", 0, <<>>, <<>>)
    /\ rmse_y = <<>> /\ calls = <<>>
    /\ model_size = <<>> /\ training_rmse = <<>>
    /\ x_drawn = <<>> /\ x_test = <<>> /\ y_test = <<>> /\ df_test = NoFrame
    /\ test_Xs = <<>> /\ test_predictions = <<>>
    /\ m4 = NoModel /\ test_rmse = <<>>
FnBlank == f_pc = "off" /\ f_preds = <<>> /\ f_true = <<>> /\ f_out = Raises("")
ColBlank == c_pc = "off" /\ c_N = 0 /\ c_colors = <<>> /\ c_used = <<>> /\ c_args = <<>>

\* the state after the import cell:  N = 40,  NOISE = .5
Init == pc = "data" /\ PipeBlank /\ FnBlank /\ ColBlank

\* the code cells below the import cell, in the notebook's order
Cells == <<"data", "expand", "fit", "subplots", "quick_plot", "rmse",
           "training_rmse", "test", "plot4", "test_rmse">>
\* the cell below cell c, "done" below the last one
After(c) ==
    LET k == CHOOSE j \in 1..Len(Cells) : Cells[j] = c
    IN  IF k < Len(Cells) THEN Cells[k + 1] ELSE "done"

\* cell c is the next one to run: the cell above it has run, raising or not
Ready(c) == pc = c \/ (pc = "error" /\ ran # "" /\ After(ran) = c)
\* cell c ran to its end
Pass(c) == pc' = After(c) /\ ran' = c /\ raised' = ""
\* cell c stopped on the exception e
Fail(c, e) == pc' = "error" /\ ran' = c /\ raised' = e

\* x = np.arange(-1,1,.01);  y = y_true + (NOISE * np.random.randn(y_true.size))
DataCell(ys) ==
    /\ Ready("data")
    /\ x' = Arange(XStart, XStop, XStep)
    /\ IF CanVectorize(x')
       THEN /\ Len(ys) = Len(x')
            /\ y' = ys
            /\ figure' = Drew("data", 0, <<>>, <<>>)
            /\ defined' = defined \cup {"x", "true_model", "y_true", "y"}
            /\ Pass("data")
       ELSE /\ ys = <<>>
            /\ Fail("data", "ValueError")
            /\ defined' = defined \cup {"x", "true_model"}
            /\ UNCHANGED <<y, figure>>
    /\ UNCHANGED <<df, Xs, models, predictions, colors, plots, rmse_y, calls,
                   model_size, training_rmse, x_drawn, x_test, y_test, df_test,
                   test_Xs, test_predictions, m4, test_rmse>>

\* df = pd.DataFrame({'x':x}); for i in range(2,N+1): df['x^' + str(i)] = x**i
ExpandCell ==
    /\ Ready("expand")
    /\ df' = Expand(x, N)
    /\ defined' = defined \cup {"df"}
    /\ Pass("expand")
    /\ UNCHANGED <<x, y, Xs, models, predictions, colors, plots, figure,
                   rmse_y, calls, model_size, training_rmse, x_drawn,
                   x_test, y_test, df_test, test_Xs, test_predictions, m4,
                   test_rmse>>

\* [LinearRegression().fit(X, y) for X in Xs]
FitAll(Ms, ys) == [k \in 1..Len(Ms) |-> Fit(Ms[k], ys)]

\* [model.predict(X) for X,model in zip(Xs,models)]
ZipLen(a, b) == Min(Len(a), Len(b))
CanPredictAll(Ms, ms) == \A k \in 1..ZipLen(Ms, ms) : CanPredict(ms[k], Ms[k])
PredictAll(Ms, ms) == [k \in 1..ZipLen(Ms, ms) |-> Predict(ms[k], Ms[k])]

\* the fit cell: Xs, models, predictions
FitCell ==
    /\ Ready("fit")
    /\ Xs' = FeatureMatrices(df)
    /\ models' = FitAll(Xs', y)
    /\ predictions' = PredictAll(Xs', models')
    /\ defined' = defined \cup {"Xs", "models", "predictions"}
    /\ Pass("fit")
    /\ UNCHANGED <<x, y, df, colors, plots, figure, rmse_y,
                   calls, model_size, training_rmse, x_drawn, x_test, y_test,
                   df_test, test_Xs, test_predictions, m4, test_rmse>>

\* the subplot loop  for i in range(0,N-1):  title i+1, predictions[i], colors[i]
SubplotIndices == Range(0, N - 1, 1)
\* the subplot of iteration k of the loop
Subplot(k, cols) ==
    Drew("subplot", SubplotIndices[k] + 1, At(predictions, SubplotIndices[k]),
         At(cols, SubplotIndices[k]))
\* the iterations of the loop that read predictions[i] or colors[i] out of range
SubplotStops(cols) ==
    {k \in 1..Len(SubplotIndices) :
        ~(InRange(predictions, SubplotIndices[k]) /\ InRange(cols, SubplotIndices[k]))}

\* the subplots cell: def make_color_value, colors, plots = [] and the loop.  An
\* iteration appends its subplot to plots before it reads predictions[i] and
\* colors[i]
SubplotCell ==
    /\ Ready("subplots")
    /\ IF ColorStep(N) = 0
       THEN /\ Fail("subplots", "ValueError")
            /\ defined' = defined \cup {"make_color_value"}
            /\ UNCHANGED <<colors, plots, figure>>
       ELSE /\ colors' = Colors(N)
            /\ defined' = defined \cup {"make_color_value", "colors", "plots"}
            /\ IF SubplotStops(colors') = {}
               THEN /\ plots' = [k \in 1..Len(SubplotIndices) |-> Subplot(k, colors')]
                    /\ figure' = Drew("grid", 0, <<>>, <<>>)
                    /\ Pass("subplots")
               ELSE /\ LET stop == CHOOSE k \in SubplotStops(colors') :
                                       \A j \in SubplotStops(colors') : k <= j
                       IN  plots' = [k \in 1..stop |->
                                        IF k < stop THEN Subplot(k, colors')
                                        ELSE Drew("subplot", 0, <<>>, <<>>)]
                    /\ Fail("subplots", "IndexError")
                    /\ UNCHANGED figure
    /\ UNCHANGED <<x, y, df, Xs, models, predictions, rmse_y, calls,
                   model_size, training_rmse, x_drawn, x_test, y_test, df_test,
                   test_Xs, test_predictions, m4, test_rmse>>

\* the arguments of the cell's calls quick_plot(2), quick_plot(4), quick_plot(12),
\* quick_plot(36)
QuickPlotArgs == <<2, 4, 12, 36>>

\* the exception a call quick_plot(i) stops on, "" if none: its first read of
\* colors[i-1]
QuickPlotRaises(i) ==
    IF ~("colors" \in defined) THEN "NameError"
    ELSE IF ~InRange(colors, i - 1) THEN "IndexError"
    ELSE ""

\* def quick_plot(i): the figure the call shows; Xi = df[list(df.columns[:i])].values,
\* mi = LinearRegression().fit(Xi,y) and predi = mi.predict(Xi) are its locals
quick_plot(i) ==
    Drew("quick_plot", i, Predict(Fit(PrefixValues(df, i), y), PrefixValues(df, i)),
         At(colors, i - 1))

\* the calls quick_plot(args[1]), quick_plot(args[2]), .. in order, up to the
\* first one that raises; shown is the figure shown last
RECURSIVE QuickPlotCalls(_, _)
QuickPlotCalls(args, shown) ==
    IF Len(args) = 0 THEN [raises |-> "", figure |-> shown]
    ELSE IF QuickPlotRaises(args[1]) # ""
         THEN [raises |-> QuickPlotRaises(args[1]), figure |-> shown]
         ELSE QuickPlotCalls(Tail(args), quick_plot(args[1]))

\* the quick_plot cell: def quick_plot(i) and its four calls
QuickPlot ==
    /\ Ready("quick_plot")
    /\ LET end == QuickPlotCalls(QuickPlotArgs, figure)
       IN  /\ figure' = end.figure
           /\ IF end.raises = "" THEN Pass("quick_plot")
              ELSE Fail("quick_plot", end.raises)
    /\ defined' = defined \cup {"quick_plot"}
    /\ UNCHANGED <<x, y, df, Xs, models, predictions, colors, plots, rmse_y,
                   calls, model_size, training_rmse, x_drawn, x_test, y_test,
                   df_test, test_Xs, test_predictions, m4, test_rmse>>

\* def rmse(preds, true_y=y): the default is the value of y at this moment
RmseCell ==
    /\ Ready("rmse")
    /\ rmse_y' = y
    /\ defined' = defined \cup {"rmse"}
    /\ Pass("rmse")
    /\ UNCHANGED <<x, y, df, Xs, models, predictions, colors, plots,
                   figure, calls, model_size, training_rmse, x_drawn,
                   x_test, y_test, df_test, test_Xs, test_predictions, m4,
                   test_rmse>>

\* list(range(1,N))
ModelSize(n) == Range(1, n, 1)

\* LoopIndex off by one: predictions[i-2]
LoopIndexOff(i) == i - 2

\* the index i-1 of predictions[i-1] and test_predictions[i-1]
LoopIndex(i) == i - 1

\* for i in model_size: curve.append(rmse(ps[i-1], ty)), from the state acc of
\* the loop: the curve so far, the rmse calls so far, the exception if any
RECURSIVE RmseLoop(_, _, _, _)
RmseLoop(ps, sizes, ty, acc) ==
    IF Len(sizes) = 0 THEN acc
    ELSE IF ~InRange(ps, LoopIndex(sizes[1]))
         THEN [acc EXCEPT !.raises = "IndexError"]
         ELSE LET arg == At(ps, LoopIndex(sizes[1]))
                  out == rmse(arg, ty)
                  log == Append(acc.log, [preds |-> arg, true_y |-> ty, out |-> out])
              IN  IF out.raises # ""
                  THEN [acc EXCEPT !.log = log, !.raises = out.raises]
                  ELSE RmseLoop(ps, Tail(sizes), ty,
                                [acc EXCEPT !.log = log, !.curve = Append(@, out)])

\* model_size = list(range(1,N)); the training_rmse loop
TrainingRmseCell ==
    /\ Ready("training_rmse")
    /\ model_size' = ModelSize(N)
    /\ LET end == RmseLoop(predictions, model_size', rmse_y,
                           [curve |-> <<>>, log |-> calls, raises |-> ""])
       IN  /\ training_rmse' = end.curve
           /\ calls' = end.log
           /\ IF end.raises = ""
              THEN /\ Pass("training_rmse")
                   /\ figure' = Drew("training_rmse", 0, <<>>, <<>>)
              ELSE Fail("training_rmse", end.raises) /\ UNCHANGED figure
    /\ defined' = defined \cup {"model_size", "training_rmse"}
    /\ UNCHANGED <<x, y, df, Xs, models, predictions, colors, plots, rmse_y, x_drawn, x_test, y_test, df_test, test_Xs,
                   test_predictions, m4, test_rmse>>

\* Keep with a strict comparison: abs(i) < 1
KeepStrict(v) == RLt(RAbs(v), One)

\* the condition abs(i) <= 1 of the filter
Keep(v) == RLeq(RAbs(v), One)

\* [i for i in x_test if abs(i) <= 1]
RECURSIVE Filter(_)
Filter(s) ==
    IF Len(s) = 0 THEN <<>>
    ELSE (IF Keep(s[1]) THEN <<s[1]>> ELSE <<>>) \o Filter(Tail(s))

\* ExpandTest with the loop started at 1: range(1,N+1) adds a column 'x^1'
ExpandTestFromOne(xs, n) == ExpandFrom([columns |-> <<XName>>, data |-> <<xs>>], xs, 1, n)

\* df_test = pd.DataFrame({'x':x_test},index=...) and its loop over range(2,N+1)
ExpandTest(xs, n) == Expand(xs, n)

\* the statements of the test cell, for the normal draws and the noisy test
\* targets yt: x_test, then y_test (true_model raises on an empty x_test),
\* df_test, test_Xs, test_predictions
TestSteps(draws, yt) ==
    /\ Ready("test")
    /\ x_drawn' = draws
    /\ x_test' = Filter(draws)
    /\ IF ~CanVectorize(x_test')
       THEN /\ yt = <<>>
            /\ Fail("test", "ValueError")
            /\ defined' = defined \cup {"x_test"}
            /\ UNCHANGED <<y_test, df_test, test_Xs, test_predictions>>
       ELSE /\ Len(yt) = Len(x_test')
            /\ y_test' = yt
            /\ df_test' = ExpandTest(x_test', N)
            /\ test_Xs' = FeatureMatrices(df_test')
            /\ IF CanPredictAll(test_Xs', models)
               THEN /\ test_predictions' = PredictAll(test_Xs', models)
                    /\ defined' = defined \cup {"x_test", "y_test", "df_test", "test_Xs",
                                                "test_predictions"}
                    /\ Pass("test")
               ELSE /\ Fail("test", "ValueError")
                    /\ defined' = defined \cup {"x_test", "y_test", "df_test", "test_Xs"}
                    /\ UNCHANGED test_predictions

\* TestCell with fit(X, y_test).predict(X) in place of predict(X): the models are
\* refitted on the test data
TestCellRefit(draws, yt) ==
    /\ TestSteps(draws, yt)
    /\ models' = IF Len(yt) >= 1 THEN FitAll(test_Xs', yt) ELSE models
    /\ UNCHANGED <<x, y, df, Xs, predictions, colors, plots, figure,
                   rmse_y, calls, model_size, training_rmse, m4, test_rmse>>

\* the test cell: it binds nothing else, and only calls predict on the models
TestCell(draws, yt) ==
    /\ TestSteps(draws, yt)
    /\ UNCHANGED <<x, y, df, Xs, models, predictions, colors, plots, figure,
                   rmse_y, calls, model_size, training_rmse, m4, test_rmse>>

\* X4 = df[list(df.columns[:4])].values; m4 = LinearRegression().fit(X4,y); then
\* the plot reads y_test and colors[3]
Plot4Cell ==
    /\ Ready("plot4")
    /\ m4' = Fit(PrefixValues(df, PlotDegree), y)
    /\ defined' = defined \cup {"X4", "m4", "pred4"}
    /\ IF ~("y_test" \in defined) \/ ~("colors" \in defined)
       THEN Fail("plot4", "NameError") /\ UNCHANGED figure
       ELSE IF ~InRange(colors, PlotColor)
            THEN Fail("plot4", "IndexError") /\ UNCHANGED figure
            ELSE /\ figure' = Drew("plot4", 0, Predict(m4', PrefixValues(df, PlotDegree)),
                                   At(colors, PlotColor))
                 /\ Pass("plot4")
    /\ UNCHANGED <<x, y, df, Xs, models, predictions, colors, plots, rmse_y, calls, model_size, training_rmse, x_drawn, x_test,
                   y_test, df_test, test_Xs, test_predictions, test_rmse>>

\* test_rmse = [] and the loop: rmse(test_predictions[i-1], true_y=y_test)
TestRmseCell ==
    /\ Ready("test_rmse")
    /\ IF Len(model_size) >= 1 /\ ~("test_predictions" \in defined)
       THEN /\ test_rmse' = <<>>
            /\ Fail("test_rmse", "NameError")
            /\ UNCHANGED <<calls, figure>>
       ELSE LET end == RmseLoop(test_predictions, model_size, y_test,
                                [curve |-> <<>>, log |-> calls, raises |-> ""])
            IN  /\ test_rmse' = end.curve
                /\ calls' = end.log
                /\ IF end.raises = ""
                   THEN /\ Pass("test_rmse")
                        /\ figure' = Drew("test_rmse", 0, <<>>, <<>>)
                   ELSE Fail("test_rmse", end.raises) /\ UNCHANGED figure
    /\ defined' = defined \cup {"test_rmse"}
    /\ UNCHANGED <<x, y, df, Xs, models, predictions, colors, plots, rmse_y, model_size, training_rmse, x_drawn, x_test, y_test,
                   df_test, test_Xs, test_predictions, m4>>

\* sequences of length n over S
SeqsOf(S, n) == [1..n -> S]
\* sequences of length at most n over S
SeqsUpTo(S, n) == UNION {[1..k -> S] : k \in 0..n}

Next ==
    \/ \E ys \in SeqsOf(YVals, Len(Arange(XStart, XStop, XStep))) :
           DataCell(ys) /\ UNCHANGED <<fnVars, colVars>>
    \/ ExpandCell /\ UNCHANGED <<fnVars, colVars>>
    \/ FitCell /\ UNCHANGED <<fnVars, colVars>>
    \/ SubplotCell /\ UNCHANGED <<fnVars, colVars>>
    \/ QuickPlot /\ UNCHANGED <<fnVars, colVars>>
    \/ RmseCell /\ UNCHANGED <<fnVars, colVars>>
    \/ TrainingRmseCell /\ UNCHANGED <<fnVars, colVars>>
    \/ \E draws \in SeqsOf(DrawVals, NDraws) : \E yt \in SeqsUpTo(YVals, NDraws) :
           TestCell(draws, yt) /\ UNCHANGED <<fnVars, colVars>>
    \/ Plot4Cell /\ UNCHANGED <<fnVars, colVars>>
    \/ TestRmseCell /\ UNCHANGED <<fnVars, colVars>>

Spec == Init /\ [][Next]_vars

(***************************************************************************)
(* rmse on its own: one call on arguments drawn from FnVals.               *)
(***************************************************************************)
FnVals == {<<-1, 1>>, Zero, <<1, 2>>, One}

InitRmse ==
    /\ pc = "off" /\ PipeBlank /\ ColBlank
    /\ f_pc = "call"
    /\ f_preds \in SeqsUpTo(FnVals, MaxLen)
    /\ f_true \in SeqsUpTo(FnVals, MaxLen)
    /\ f_out = Raises("")

RmseCall ==
    /\ f_pc = "call"
    /\ f_out' = rmse(f_preds, f_true)
    /\ f_pc' = "ret"
    /\ UNCHANGED <<f_preds, f_true>>

NextRmse == RmseCall /\ UNCHANGED <<pipeVars, colVars>>

SpecRmse == InitRmse /\ [][NextRmse]_vars

(***************************************************************************)
(* The colour cells on their own, for every N from 1 to MaxN: the colors   *)
(* line with the subplot loop's reads colors[i], then a call quick_plot(i) *)
(* with its read colors[i-1].                                              *)
(***************************************************************************)
InitColors ==
    /\ pc = "off" /\ PipeBlank /\ FnBlank
    /\ c_pc = "colors"
    /\ c_N \in 1..MaxN
    /\ c_colors = <<>> /\ c_used = <<>> /\ c_args = <<>>

\* the arguments 55+i and 200-i of the two make_color_value calls, for every i
ColorArgs(n) ==
    LET rng == Range(0, ColorSpan, ColorStep(n))
    IN  [k \in 1..(2 * Len(rng)) |->
            IF k % 2 = 1 THEN ColorBase + rng[(k + 1) \div 2]
            ELSE ColorSpan - rng[k \div 2]]

ColorsCell ==
    /\ c_pc = "colors"
    /\ IF ColorStep(c_N) = 0
       THEN c_pc' = "error" /\ UNCHANGED <<c_colors, c_used, c_args>>
       ELSE /\ c_colors' = Colors(c_N)
            /\ c_args' = ColorArgs(c_N)
            /\ LET idx == Range(0, c_N - 1, 1)
               IN  IF \A k \in 1..Len(idx) : InRange(c_colors', idx[k])
                   THEN /\ c_used' = [k \in 1..Len(idx) |-> At(c_colors', idx[k])]
                        /\ c_pc' = "quick_plot"
                   ELSE c_pc' = "error" /\ UNCHANGED c_used
    /\ UNCHANGED c_N

ColorsQuickPlot(i) ==
    /\ c_pc = "quick_plot"
    /\ IF InRange(c_colors, i - 1)
       THEN c_used' = <<At(c_colors, i - 1)>> /\ c_pc' = "done"
       ELSE c_pc' = "error" /\ UNCHANGED c_used
    /\ UNCHANGED <<c_N, c_colors, c_args>>

NextColors ==
    \/ ColorsCell /\ UNCHANGED <<pipeVars, fnVars>>
    \/ \E i \in 1..c_N : ColorsQuickPlot(i) /\ UNCHANGED <<pipeVars, fnVars>>

SpecColors == InitColors /\ [][NextColors]_vars

(***************************************************************************)
(* The claims.                                                             *)
(***************************************************************************)
Has(name) == name \in defined
\* -1 <= v <= 1
Within1(v) == -v[2] <= v[1] /\ v[1] <= v[2]
\* the first d power columns of the inputs xs
PowerColumns(xs, d) == [k \in 1..d |-> Power(xs, k)]

\* C1: after the fit cell, Xs, models and predictions have N entries, and entry
\* d is the model fitted on the first d feature columns, for every d in 1..N,
\* d = N included.
C1_NModels ==
    Has("models") =>
        /\ Len(Xs) = N /\ Len(models) = N /\ Len(predictions) = N
        /\ \A d \in 1..N : Len(models[d].coef) = d /\ Xs[d] = PrefixValues(df, d)

\* C2: for the training and the test sample and every d in 1..N, the degree-d
\* feature matrix Xs[d-1] / test_Xs[d-1] exists and is the first d columns of
\* the degree-N matrix, column k holding the inputs raised to the power k.
C2_PrefixConsistent ==
    Has("test_Xs") =>
        \A d \in 1..N :
            /\ d <= Len(Xs) /\ d <= Len(test_Xs)
            /\ Xs[d] = PowerColumns(x, d) /\ Xs[d] = SubSeq(df.data, 1, d)
            /\ test_Xs[d] = PowerColumns(x_test, d)
            /\ test_Xs[d] = SubSeq(df_test.data, 1, d)

\* C3: whatever the draws, every element of x_test satisfies |x| <= 1, every
\* draw with |x| <= 1 is retained, and the retained elements keep their draw
\* order: x_test[j] is the j-th draw, in draw order, that lies within [-1, 1].
KeptDraws == {i \in 1..Len(x_drawn) : Within1(x_drawn[i])}
C3_FilterExact ==
    Has("x_test") =>
        /\ \A j \in 1..Len(x_test) : Within1(x_test[j])
        /\ Len(x_test) = Cardinality(KeptDraws)
        /\ \A i \in KeptDraws :
               x_test[Cardinality({k \in KeptDraws : k <= i})] = x_drawn[i]
\* a draw outside [-1, 1] first, then a draw on the boundary, which is kept
C3_Witness ==
    /\ Has("x_test") /\ Len(x_drawn) >= 2 /\ Len(x_test) = 1
    /\ ~Within1(x_drawn[1]) /\ x_test[1] = <<-1, 1>>

\* C4: whatever the draws, the filtered x_test has at least one element.
C4_TestNonEmpty == Has("x_test") => Len(x_test) >= 1

RmseContract ==
    /\ f_out.raises = ""
    /\ RLeq(Zero, f_out.sqrt_of)
    /\ (f_out.sqrt_of = Zero) <=> (\A j \in 1..Len(f_preds) : f_preds[j] = f_true[j])
C6_RmseZeroIffEqual ==
    (f_pc = "ret" /\ Len(f_preds) = Len(f_true) /\ Len(f_preds) >= 1) => RmseContract
\* two elements, the first equal and the second not: a positive result
C6_Witness ==
    /\ f_pc = "ret" /\ Len(f_preds) = 2 /\ Len(f_true) = 2
    /\ f_preds[1] = f_true[1] /\ f_preds[2] # f_true[2]
    /\ f_out.raises = "" /\ RLt(Zero, f_out.sqrt_of)
\* C6 as stated: the same for every pair of sequences of equal length.
C6_AsStated == (f_pc = "ret" /\ Len(f_preds) = Len(f_true)) => RmseContract

\* C7: after a complete run rmse has been called once per entry i of model_size
\* on predictions[i-1] against y, then once per entry on test_predictions[i-1]
\* against y_test, and on nothing else; training_rmse and test_rmse are as long
\* as model_size, and entry i-1 of each is the result of the call made on the
\* predictions of the degree-i model.
C7_OncePerDegree ==
    pc = "done" =>
        /\ Len(training_rmse) = Len(model_size)
        /\ Len(test_rmse) = Len(model_size)
        /\ Len(calls) = 2 * Len(model_size)
        /\ \A i \in 1..Len(model_size) :
            /\ model_size[i] = i
            /\ Len(models[i].coef) = i
            /\ calls[i] = [preds |-> predictions[i], true_y |-> y,
                           out |-> training_rmse[i]]
            /\ calls[Len(model_size) + i] =
                   [preds |-> test_predictions[i], true_y |-> y_test,
                    out |-> test_rmse[i]]
\* a complete run with two degrees whose predictions differ on both samples
C7_Witness ==
    /\ pc = "done" /\ Len(model_size) >= 2
    /\ predictions[1] # predictions[2]
    /\ test_predictions[1] # test_predictions[2]

\* C8: every pair of zip(test_Xs, models) joins a model with a test matrix of
\* the width of the training matrix it was fitted on, column j of both holding
\* the inputs raised to the power j under the same label.
C8_SameColumns ==
    Has("test_Xs") =>
        \A i \in 1..ZipLen(test_Xs, models) :
            /\ Len(test_Xs[i]) = Len(Xs[i])
            /\ Len(test_Xs[i]) = Len(models[i].coef)
            /\ \A j \in 1..Len(Xs[i]) :
                /\ df.columns[j] = df_test.columns[j]
                /\ Xs[i][j] = Power(x, j)
                /\ test_Xs[i][j] = Power(x_test, j)
\* test predictions made for two degrees on a test sample of two inputs
C8_Witness ==
    /\ Has("test_predictions") /\ Len(test_predictions) >= 2
    /\ Len(x_test) >= 2 /\ x_test[1] # x_test[2]

\* C9: models is bound in one step, taken before x_test and y_test exist, with
\* one model per training matrix; from then on no step changes models,
\* predictions or y.
ModelsCreated == ~Has("models") /\ Has("models")'
C9_ModelsFrozen ==
    [][/\ ModelsCreated =>
              /\ ~Has("x_test")' /\ ~Has("y_test")'
              /\ Len(models') = Len(Xs') /\ Len(models') >= 1
              /\ \A k \in 1..Len(models') : Len(models'[k].coef) = Len(Xs'[k])
       /\ ~ModelsCreated => models' = models
       /\ Has("models") => (predictions' = predictions /\ y' = y)]_vars
\* the run is complete: the test cell, the degree-4 cell and both loops have run
C9_Witness ==
    /\ pc = "done" /\ Has("test_predictions") /\ Has("m4") /\ Has("quick_plot")
    /\ Len(models) >= 2 /\ m4.coef # <<>>

\* C10: for 1 <= N <= 200 every value passed to make_color_value is in 0..255
\* and comes back as two hex digits, every colour is '#' and six hex digits,
\* colors has at least N entries, and neither the subplot loop's colors[i]
\* (0 <= i <= N-2) nor quick_plot's colors[i-1] (1 <= i <= N) is out of range.
HexSet == {HexChars[k] : k \in 1..Len(HexChars)}
IsHexColor(c) == Len(c) = 7 /\ c[1] = "#" /\ \A k \in 2..7 : c[k] \in HexSet
C10_ColorsInRange ==
    (c_pc # "colors" /\ c_N \in 1..ColorSpan) =>
        /\ c_pc # "error"
        /\ \A k \in 1..Len(c_args) :
               c_args[k] \in 0..255 /\ Len(make_color_value(c_args[k])) = 2
        /\ \A k \in 1..Len(c_colors) : IsHexColor(c_colors[k])
        /\ Len(c_colors) >= c_N
        /\ c_pc = "quick_plot" => Len(c_used) = c_N - 1
\* N = 40: forty colours, the last one with a padded one-digit value
C10_Witness ==
    /\ c_pc = "done" /\ c_N = 40 /\ Len(c_colors) = 40
    /\ c_colors[40] = <<"#", "f", "a", "0", "5", "0", "0">>
    /\ c_used = <<c_colors[40]>>

====
